---- MODULE Spec2Model ----
(***************************************************************************)
(* Model of the schema migration engine of the 75-hard Discord bot:        *)
(* internal/database/migrations (scanner, checksum, statement splitter,    *)
(* transaction-control stripping, ledger, Manager.Run).                    *)
(*                                                                         *)
(* Text is a sequence of one-character strings, so that the string         *)
(* functions of the source are computed and not assumed.                   *)
(***************************************************************************)
EXTENDS Integers, Sequences, FiniteSets, TLC

(***************************************************************************)
(* Bounds of the model.                                                    *)
(***************************************************************************)
\* greatest number of tokens of a script handed to the splitter on its own
MaxTokens == 6

(***************************************************************************)
(* strings: TrimSpace, ToUpper, Split, Join, HasSuffix, SplitN, Atoi       *)
(***************************************************************************)
IsSpace(c) == c \in {" ", "\n", "\t", "\r"}

RECURSIVE TrimLeft(_)
TrimLeft(s) ==
    IF s = <<>> THEN <<>>
    ELSE IF IsSpace(Head(s)) THEN TrimLeft(Tail(s)) ELSE s

RECURSIVE TrimRight(_)
TrimRight(s) ==
    IF s = <<>> THEN <<>>
    ELSE IF IsSpace(s[Len(s)]) THEN TrimRight(SubSeq(s, 1, Len(s) - 1)) ELSE s

\* strings.TrimSpace
TrimSpace(s) == TrimRight(TrimLeft(s))

LowerLetters ==
    <<"a","b","c","d","e","f","g","h","i","j","k","l","m",
      "n","o","p","q","r","s","t","u","v","w","x","y","z">>

UpperLetters ==
    <<"A","B","C","D","E","F","G","H","I","J","K","L","M",
      "N","O","P","Q","R","S","T","U","V","W","X","Y","Z">>

ToUpperChar(c) ==
    IF \E k \in 1..26 : LowerLetters[k] = c
    THEN UpperLetters[CHOOSE k \in 1..26 : LowerLetters[k] = c]
    ELSE c

\* strings.ToUpper
ToUpper(s) == [k \in 1..Len(s) |-> ToUpperChar(s[k])]

\* strings.Split(s, sep) for a one-character separator: never empty
RECURSIVE SplitOn(_, _)
SplitOn(s, sep) ==
    IF \A k \in 1..Len(s) : s[k] # sep THEN <<s>>
    ELSE LET p == CHOOSE k \in 1..Len(s) :
                      s[k] = sep /\ \A q \in 1..(k - 1) : s[q] # sep
         IN  <<SubSeq(s, 1, p - 1)>> \o SplitOn(SubSeq(s, p + 1, Len(s)), sep)

\* strings.Join(parts, sep)
RECURSIVE Join(_, _)
Join(parts, sep) ==
    IF parts = <<>> THEN <<>>
    ELSE IF Len(parts) = 1 THEN parts[1]
    ELSE parts[1] \o <<sep>> \o Join(Tail(parts), sep)

\* strings.HasSuffix
HasSuffix(s, suf) ==
    /\ Len(s) >= Len(suf)
    /\ SubSeq(s, Len(s) - Len(suf) + 1, Len(s)) = suf

\* strings.TrimSuffix
TrimSuffix(s, suf) ==
    IF HasSuffix(s, suf) THEN SubSeq(s, 1, Len(s) - Len(suf)) ELSE s

\* strings.SplitN(s, sep, 2): at most two parts, cut at the first separator
SplitN2(s, sep) ==
    IF \A k \in 1..Len(s) : s[k] # sep THEN <<s>>
    ELSE LET p == CHOOSE k \in 1..Len(s) :
                      s[k] = sep /\ \A q \in 1..(k - 1) : s[q] # sep
         IN  <<SubSeq(s, 1, p - 1), SubSeq(s, p + 1, Len(s))>>

Digits == <<"0","1","2","3","4","5","6","7","8","9">>

IsDigit(c) == \E k \in 1..10 : Digits[k] = c

DigitVal(c) == (CHOOSE k \in 1..10 : Digits[k] = c) - 1

RECURSIVE DigitsVal(_, _)
DigitsVal(s, acc) ==
    IF s = <<>> THEN acc ELSE DigitsVal(Tail(s), acc * 10 + DigitVal(Head(s)))

\* strconv.Atoi: an optional sign followed by one or more decimal digits
Atoi(s) ==
    LET signed == s # <<>> /\ Head(s) \in {"+", "-"}
        body   == IF signed THEN Tail(s) ELSE s
        ok     == body # <<>> /\ \A k \in 1..Len(body) : IsDigit(body[k])
        mag    == IF ok THEN DigitsVal(body, 0) ELSE 0
    IN  [ok |-> ok, val |-> IF signed /\ Head(s) = "-" THEN 0 - mag ELSE mag]

(***************************************************************************)
(* checksum.go                                                             *)
(***************************************************************************)
AllChars ==
    LowerLetters \o UpperLetters \o Digits \o
    <<" ", "\n", "\t", "\r", ";", "$", "_", ".", "-", "+">>

CharCode(c) ==
    IF \E k \in 1..Len(AllChars) : AllChars[k] = c
    THEN CHOOSE k \in 1..Len(AllChars) : AllChars[k] = c
    ELSE 0

ChecksumModulus == 65521

RECURSIVE HashFold(_, _)
HashFold(s, h) ==
    IF s = <<>> THEN h
    ELSE HashFold(Tail(s), (h * 131 + CharCode(Head(s))) % ChecksumModulus)

\* CalculateChecksum: a deterministic digest of the bytes of the content.
\* SHA-256 is replaced by a polynomial digest; the texts of the model have
\* pairwise distinct digests (DigestsDistinct below).
CalculateChecksum(content) == HashFold(content, 1)

(***************************************************************************)
(* stripTransactionStatements                                              *)
(***************************************************************************)
BEGINs == <<"B","E","G","I","N">>
COMMITs == <<"C","O","M","M","I","T">>

\* a test that also takes a line that only starts with BEGIN or COMMIT
IsTxControlLine_PrefixMatch(line) ==
    LET upperTrimmed == ToUpper(TrimSpace(line))
    IN  \/ /\ Len(upperTrimmed) >= Len(BEGINs)
           /\ SubSeq(upperTrimmed, 1, Len(BEGINs)) = BEGINs
        \/ /\ Len(upperTrimmed) >= Len(COMMITs)
           /\ SubSeq(upperTrimmed, 1, Len(COMMITs)) = COMMITs

\* a test on the line as it is, without strings.TrimSpace
IsTxControlLine_Untrimmed(line) ==
    LET upper == ToUpper(line)
    IN  \/ upper = BEGINs \o <<";">>
        \/ upper = COMMITs \o <<";">>
        \/ upper = BEGINs
        \/ upper = COMMITs

\* the condition of the `continue` in the loop over the lines
IsTxControlLine(line) ==
    LET upperTrimmed == ToUpper(TrimSpace(line))
    IN  \/ upperTrimmed = BEGINs \o <<";">>
        \/ upperTrimmed = COMMITs \o <<";">>
        \/ upperTrimmed = BEGINs
        \/ upperTrimmed = COMMITs

RECURSIVE FilterLines(_)
FilterLines(lines) ==
    IF lines = <<>> THEN <<>>
    ELSE IF IsTxControlLine(Head(lines)) THEN FilterLines(Tail(lines))
    ELSE <<Head(lines)>> \o FilterLines(Tail(lines))

stripTransactionStatements(sql) ==
    TrimSpace(Join(FilterLines(SplitOn(sql, "\n")), "\n"))

(***************************************************************************)
(* splitSQLStatements: the loop over the characters of the script.  `i` is *)
(* the 1-based position of the next character (sql[i-1] in the source).    *)
(***************************************************************************)
SplitStart ==
    [i |-> 1, current |-> <<>>, inDollarQuote |-> FALSE, dollarTag |-> <<>>,
     statements |-> <<>>]

\* first position after p that holds a `$`, or 0: the inner loop over j
NextDollar(sql, p) ==
    IF \E j \in (p + 1)..Len(sql) : sql[j] = "$"
    THEN CHOOSE j \in (p + 1)..Len(sql) :
             sql[j] = "$" /\ \A q \in (p + 1)..(j - 1) : sql[q] # "$"
    ELSE 0

\* one iteration of `for i < len(sql)`
SplitStep(sql, st) ==
    LET char == sql[st.i] IN
    IF ~st.inDollarQuote /\ char = "$" THEN
        \* dollar quote start
        LET j == NextDollar(sql, st.i) IN
        IF j # 0
        THEN [st EXCEPT !.dollarTag = SubSeq(sql, st.i, j),
                        !.inDollarQuote = TRUE,
                        !.current = st.current \o SubSeq(sql, st.i, j),
                        !.i = j + 1]
        ELSE [st EXCEPT !.current = Append(st.current, char), !.i = st.i + 1]
    ELSE IF st.inDollarQuote THEN
        \* dollar quote end
        IF /\ st.i + Len(st.dollarTag) - 1 <= Len(sql)
           /\ SubSeq(sql, st.i, st.i + Len(st.dollarTag) - 1) = st.dollarTag
        THEN LET cleared == <<>> IN
             \* dollarTag = "" is assigned before i += len(dollarTag)
             [st EXCEPT !.current = st.current \o st.dollarTag,
                        !.inDollarQuote = FALSE,
                        !.dollarTag = cleared,
                        !.i = st.i + Len(cleared)]
        ELSE [st EXCEPT !.current = Append(st.current, char), !.i = st.i + 1]
    ELSE
        \* outside a dollar quote
        LET cur  == Append(st.current, char)
            stmt == TrimSpace(cur)
        IN  IF char = ";"
            THEN [st EXCEPT !.statements =
                                IF stmt # <<>> /\ stmt # <<";">>
                                THEN Append(st.statements, stmt)
                                ELSE st.statements,
                            !.current = <<>>,
                            !.i = st.i + 1]
            ELSE [st EXCEPT !.current = cur, !.i = st.i + 1]

\* a return that forgets the text after the last terminator
SplitFinish_DropsRest(st) == st.statements

\* after the loop: "Add any remaining statement"
SplitFinish(st) ==
    LET stmt == TrimSpace(st.current)
    IN  IF stmt # <<>> THEN Append(st.statements, stmt) ELSE st.statements

RECURSIVE SplitLoop(_, _)
SplitLoop(sql, st) ==
    IF st.i > Len(sql) THEN st ELSE SplitLoop(sql, SplitStep(sql, st))

splitSQLStatements(sql) == SplitFinish(SplitLoop(sql, SplitStart))

(***************************************************************************)
(* The universe of the model: scripts and file names of the migrations     *)
(* directory.                                                              *)
(***************************************************************************)
\* "a;"
ScriptA == <<"a", ";">>
\* "BEGIN;\na;\nCOMMIT;": stripping leaves "a;"
ScriptTxA ==
    BEGINs \o <<";", "\n", "a", ";", "\n">> \o COMMITs \o <<";">>
\* "b;c;": two statements
ScriptBC == <<"b", ";", "c", ";">>

Scripts == {ScriptA, ScriptTxA, ScriptBC}

SqlExt == <<".", "s", "q", "l">>

File1a == <<"1", "_", "a">> \o SqlExt
File1b == <<"1", "_", "b">> \o SqlExt
File2a == <<"2", "_", "a">> \o SqlExt
\* a script file whose leading token is not a number
FileXa == <<"x", "_", "a">> \o SqlExt

\* a script file whose leading token is a negative number
FileNeg == <<"-", "1", "_", "a">> \o SqlExt

\* an os.DirEntry: a regular file with its content, or a subdirectory
FileEntry(name, content) ==
    [name |-> name, content |-> content, isDir |-> FALSE]

SubDirEntry(name) == [name |-> name, content |-> <<>>, isDir |-> TRUE]

\* the directory entries the model draws from: a file name and its content
DirEntries ==
    {FileEntry(File1a, c) : c \in {ScriptA, ScriptTxA, ScriptBC}}
    \cup {FileEntry(File1b, ScriptA)}
    \cup {FileEntry(File2a, ScriptBC)}
    \cup {FileEntry(FileXa, ScriptA)}
    \cup {FileEntry(FileNeg, ScriptA)}

\* a directory holds at most one entry of a name
IsDirectory(d) == \A e1, e2 \in d : e1.name = e2.name => e1 = e2

Directories == {d \in SUBSET DirEntries : IsDirectory(d)}

(***************************************************************************)
(* State                                                                   *)
(***************************************************************************)
VARIABLES
    dir,          \* the migrations directory: a set of [name, content]
    ledger,       \* committed rows of schema_migrations:
                  \* [version, name, checksum] and, as history, the raw
                  \* script the row was recorded for
    schema,       \* committed effects of migration statements, in order
    pc,           \* position of Run()
    migrations,   \* Run: result of ScanMigrationFiles
    applied,      \* Run: result of GetAppliedMigrations (version -> row)
    idx,          \* Run: position of the loop over migrations
    statements,   \* ApplyMigration: the split statements
    si,           \* ApplyMigration: position of the loop over statements
    txActive,     \* ApplyMigration: a transaction is open
    txEffects,    \* uncommitted statement effects of the open transaction
    txRows,       \* uncommitted ledger rows of the open transaction
    result,       \* what Run() returned: [status, kind, version, name, index]
    ledger0,      \* history: ledger when this Run() started
    schema0,      \* history: schema when this Run() started
    txLedger0,    \* history: ledger when the last transaction began
    txSchema0,    \* history: schema when the last transaction began
    began,        \* history: migrations whose transaction this Run() began
    committed,    \* history: migrations this Run() committed, in order
    execd,        \* history: statements this Run() handed to the store
    valApplied,   \* history: the map ValidateChecksums read
    fault,        \* history: the store or the file system failed in this Run()
    stable,       \* history: the previous Run() succeeded and the directory
                  \* has not been edited since
    sp,           \* the splitter run on its own: [tokens, sql, st, done, out]
    other,        \* a second instance of Run() on the same store and source
    app,          \* the process that calls Connect: position of main
    written,      \* history: the ledger rows ApplyMigration committed
    sr,           \* stripTransactionStatements run on its own:
                  \* [given, sql, lines, k, filteredLines, done, out]
    sc            \* ScanMigrationFiles run on its own:
                  \* [entries, k, migrations, done, ok, out]

runVars == <<pc, migrations, applied, idx, statements, si, txActive,
             txEffects, txRows, result, ledger0, schema0, txLedger0,
             txSchema0, began, committed, execd, valApplied, fault>>

vars == <<dir, ledger, schema, runVars, stable, sp, other, app, sr, sc, written>>

NoResult == [status |-> "none", kind |-> "", version |-> 0, name |-> <<>>,
             index |-> 0]

OkResult == [NoResult EXCEPT !.status = "ok"]

Err(status, kind) == [NoResult EXCEPT !.status = status, !.kind = kind]

NoMap == [v \in {} |-> 0]

SpIdle == [tokens |-> <<>>, sql |-> <<>>, st |-> SplitStart, done |-> TRUE,
           out |-> <<>>]

\* the second instance, not started
OtherIdle ==
    [pc |-> "idle", migrations |-> <<>>, applied |-> NoMap, idx |-> 0,
     statements |-> <<>>, si |-> 0, txActive |-> FALSE, txEffects |-> <<>>,
     txRows |-> {}, result |-> NoResult, began |-> <<>>, committed |-> <<>>,
     fault |-> FALSE]

\* the strip and the scan are not run on their own
SrIdle ==
    [given |-> <<>>, sql |-> <<>>, lines |-> <<>>, k |-> 0,
     filteredLines |-> <<>>, done |-> FALSE, out |-> <<>>]

ScIdle ==
    [entries |-> <<>>, k |-> 0, migrations |-> <<>>, done |-> FALSE,
     ok |-> FALSE, out |-> <<>>]

\* no calling process: Run() is called on its own
AppNone ==
    [pc |-> "none", db |-> "none", run |-> "none", trigger |-> FALSE,
     services |-> FALSE, bot |-> FALSE]

(***************************************************************************)
(* ScanMigrationFiles                                                      *)
(***************************************************************************)
\* the body of the loop over the entries for one entry: "skip", "invalid"
\* or the Migration
ScanEntry(e) ==
    LET parts == SplitN2(e.name, "_") IN
    IF e.isDir THEN [kind |-> "skip"]
    ELSE IF ~HasSuffix(e.name, SqlExt) THEN [kind |-> "skip"]
    ELSE IF Len(parts) < 2 THEN [kind |-> "skip"]
    ELSE IF ~Atoi(parts[1]).ok THEN [kind |-> "invalid"]
    ELSE [kind |-> "migration",
          mig  |-> [Version |-> Atoi(parts[1]).val,
                    Name    |-> TrimSuffix(parts[2], SqlExt),
                    SQL     |-> e.content]]

\* a scan that passes over a file name it cannot parse
RECURSIVE ScanLoop_SkipsInvalid(_)
ScanLoop_SkipsInvalid(entries) ==
    IF entries = <<>> THEN [ok |-> TRUE, migs |-> <<>>]
    ELSE LET r    == ScanEntry(Head(entries))
             rest == ScanLoop_SkipsInvalid(Tail(entries))
         IN  IF r.kind \in {"skip", "invalid"} THEN rest
             ELSE [ok |-> TRUE, migs |-> <<r.mig>> \o rest.migs]

RECURSIVE ScanLoop(_)
ScanLoop(entries) ==
    IF entries = <<>> THEN [ok |-> TRUE, migs |-> <<>>]
    ELSE LET r == ScanEntry(Head(entries)) IN
         IF r.kind = "invalid" THEN [ok |-> FALSE, migs |-> <<>>]
         ELSE LET rest == ScanLoop(Tail(entries)) IN
              IF ~rest.ok THEN rest
              ELSE IF r.kind = "skip" THEN rest
              ELSE [ok |-> TRUE, migs |-> <<r.mig>> \o rest.migs]

\* the comparison handed to sort.Slice
Less(a, b) == a.Version < b.Version

RECURSIVE InsertSorted(_, _)
InsertSorted(m, sorted) ==
    IF sorted = <<>> THEN <<m>>
    ELSE IF Less(m, Head(sorted)) THEN <<m>> \o sorted
    ELSE <<Head(sorted)>> \o InsertSorted(m, Tail(sorted))

\* sort.Slice(migrations, Less).  sort.Slice is not stable; the order of
\* equal versions it can leave is covered by the order of the listing.
RECURSIVE SortByVersion(_)
SortByVersion(migs) ==
    IF migs = <<>> THEN <<>>
    ELSE InsertSorted(migs[Len(migs)], SortByVersion(SubSeq(migs, 1, Len(migs) - 1)))

ScanMigrationFiles(listing) ==
    LET r == ScanLoop(listing)
    IN  [ok |-> r.ok, migs |-> IF r.ok THEN SortByVersion(r.migs) ELSE <<>>]

\* the orders in which the directory can list its entries
Listings(d) ==
    {l \in [1..Cardinality(d) -> d] : \A i, j \in 1..Cardinality(d) : i # j => l[i] # l[j]}

(***************************************************************************)
(* Ledger                                                                  *)
(***************************************************************************)
LedgerRow(version, name, checksum, script) ==
    [version |-> version, name |-> name, checksum |-> checksum,
     script |-> script]

LedgerVersions(l) == {r.version : r \in l}

\* a table without a primary key
PrimaryKeyConflict_Never(l, row) == FALSE

\* PRIMARY KEY (version, name) of schema_migrations
PrimaryKeyConflict(l, row) ==
    \E r \in l : r.version = row.version /\ r.name = row.name

\* GetAppliedMigrations: applied[mig.Version] = mig over the rows ORDER BY
\* version; of several rows of one version the last one read stays, and
\* the order among them is the store's choice
AppliedMaps(l) ==
    {f \in [LedgerVersions(l) -> l] : \A v \in LedgerVersions(l) : f[v].version = v}

(***************************************************************************)
(* ValidateChecksums: the loop over the migrations, applied being the map  *)
(* it read.  Returns 0 or the position of the first mismatch.              *)
(***************************************************************************)
\* a validation that accepts every stored checksum
ChecksumAccepted_Always(migration, appliedMig) == TRUE

ChecksumAccepted(migration, appliedMig) ==
    LET calculatedChecksum ==
            CalculateChecksum(stripTransactionStatements(migration.SQL))
        originalChecksum == CalculateChecksum(migration.SQL)
    IN  ~(calculatedChecksum # appliedMig.checksum
          /\ originalChecksum # appliedMig.checksum)

RECURSIVE ValidateFrom(_, _, _)
ValidateFrom(migs, amap, k) ==
    IF k > Len(migs) THEN 0
    ELSE IF migs[k].Version \notin DOMAIN amap THEN ValidateFrom(migs, amap, k + 1)
    ELSE IF ~ChecksumAccepted(migs[k], amap[migs[k].Version]) THEN k
    ELSE ValidateFrom(migs, amap, k + 1)

ValidateChecksums(migs, amap) == ValidateFrom(migs, amap, 1)

(***************************************************************************)
(* The transactional store: what tx.Commit and tx.Rollback leave behind.   *)
(***************************************************************************)
CommitSchema(sch, effects) == sch \o effects

\* a commit that loses the ledger rows of the transaction
CommitLedger_DropsRows(l, rows) == l

CommitLedger(l, rows) == l \cup rows

\* a rollback that leaves the executed statements in place
RollbackSchema_KeepsEffects(sch, effects) == sch \o effects

\* the deferred tx.Rollback(): uncommitted effects and rows are discarded
RollbackSchema(sch, effects) == sch

\* a rollback that also undoes what earlier transactions committed
RollbackLedger_DropsAll(l, rows) == {}

RollbackLedger(l, rows) == l

(***************************************************************************)
(* Init: a directory, and a ledger that is empty or holds one row written  *)
(* before checksums were taken of the stripped script (raw checksum).      *)
(***************************************************************************)
LegacyRows(d) ==
    {LedgerRow(ScanEntry(e).mig.Version, ScanEntry(e).mig.Name,
               CalculateChecksum(e.content), e.content) :
         e \in {x \in d : ScanEntry(x).kind = "migration"}}

RunInit ==
    /\ pc = "idle"
    /\ migrations = <<>>
    /\ applied = NoMap
    /\ idx = 0
    /\ statements = <<>>
    /\ si = 0
    /\ txActive = FALSE
    /\ txEffects = <<>>
    /\ txRows = {}
    /\ result = NoResult
    /\ ledger0 = {}
    /\ schema0 = <<>>
    /\ txLedger0 = {}
    /\ txSchema0 = <<>>
    /\ began = <<>>
    /\ committed = <<>>
    /\ execd = <<>>
    /\ valApplied = NoMap
    /\ fault = FALSE

Init ==
    /\ dir \in Directories
    /\ ledger \in {{}} \cup {{r} : r \in LegacyRows(dir)}
    /\ schema = <<>>
    /\ stable = FALSE
    /\ sp = SpIdle
    /\ other = OtherIdle
    /\ app = AppNone
    /\ written = {}
    /\ sr = SrIdle
    /\ sc = ScIdle
    /\ RunInit

(***************************************************************************)
(* The environment edits the migrations directory between two runs.        *)
(***************************************************************************)
WriteFile ==
    /\ pc = "idle"
    /\ sp = SpIdle
    /\ \E e \in DirEntries :
          /\ e \notin dir
          /\ dir' = {x \in dir : x.name # e.name} \cup {e}
    /\ stable' = FALSE
    /\ UNCHANGED <<ledger, schema, runVars, sp, other, app, sr, sc, written>>

RemoveFile ==
    /\ pc = "idle"
    /\ sp = SpIdle
    /\ \E e \in dir : dir' = dir \ {e}
    /\ stable' = FALSE
    /\ UNCHANGED <<ledger, schema, runVars, sp, other, app, sr, sc, written>>

(***************************************************************************)
(* Connect (connection.go): what the caller does with the result of Run(). *)
(***************************************************************************)
\* a caller that goes on to the trigger step whatever Run() returned
ConnectAfterRun_IgnoresError(a, res) ==
    IF a.pc # "run" THEN a
    ELSE [a EXCEPT !.pc = "trigger",
                   !.run = IF res.status = "ok" THEN "ok" ELSE "failed"]

\* `if err := mgr.Run(); err != nil { db.Close(); return nil, ... }`
ConnectAfterRun(a, res) ==
    IF a.pc # "run" THEN a
    ELSE IF res.status = "ok"
    THEN [a EXCEPT !.pc = "trigger", !.run = "ok"]
    ELSE [a EXCEPT !.pc = "connect_failed", !.run = "failed", !.db = "closed"]

(***************************************************************************)
(* Manager.Run                                                             *)
(***************************************************************************)
\* an order of the steps that reads the ledger before the directory
RunSteps_QueryFirst == <<"ensure", "getApplied", "scan", "validate", "loop">>

\* the steps of Run() in the order of its body
RunSteps == <<"ensure", "scan", "getApplied", "validate", "loop">>

\* the step that follows a step that returned no error
StepAfter(step) ==
    LET k == CHOOSE i \in 1..Len(RunSteps) : RunSteps[i] = step
    IN  RunSteps[k + 1]

\* a check that never takes the early return
NoMigrationsFound_Never(migs) == FALSE

\* `if len(migrations) == 0 { return nil }`
NoMigrationsFound(migs) == Len(migs) = 0

\* an error message that counts the statements from zero
StatementIndex_ZeroBased(i) == i

\* `i+1` in "failed to execute statement %d in migration %d (%s)"
StatementIndex(i) == i + 1

\* Run() returns res; an open transaction is rolled back (defer)
Finish(res) ==
    /\ pc' = "done"
    /\ result' = res
    /\ txActive' = FALSE
    /\ txEffects' = <<>>
    /\ txRows' = {}
    /\ schema' = IF txActive THEN RollbackSchema(schema, txEffects) ELSE schema
    /\ ledger' = IF txActive THEN RollbackLedger(ledger, txRows) ELSE ledger

StartRun ==
    /\ pc = "idle"
    /\ sp = SpIdle
    /\ app.pc \in {"none", "run"}
    /\ pc' = RunSteps[1]
    /\ ledger0' = ledger
    /\ schema0' = schema
    /\ txLedger0' = ledger
    /\ txSchema0' = schema
    /\ UNCHANGED <<dir, ledger, schema, migrations, applied, idx, statements,
                   si, txActive, txEffects, txRows, result, began, committed,
                   execd, valApplied, fault, stable, sp, other, app, sr, sc, written>>

\* Step 1: CREATE TABLE IF NOT EXISTS schema_migrations
EnsureMigrationsTable ==
    /\ pc = "ensure"
    /\ \E ok \in BOOLEAN :
          IF ok
          THEN /\ pc' = StepAfter("ensure")
               /\ UNCHANGED <<ledger, schema, result, txActive, txEffects,
                              txRows, fault>>
          ELSE /\ Finish(Err("err_ensure", "store"))
               /\ fault' = TRUE
    /\ UNCHANGED <<dir, migrations, applied, idx, statements, si, ledger0,
                   schema0, txLedger0, txSchema0, began, committed, execd,
                   valApplied, stable, sp, other, app, sr, sc, written>>

\* Step 2: ScanMigrationFiles, and the return when nothing was found
Scan ==
    /\ pc = "scan"
    /\ \E ioOk \in BOOLEAN, listing \in Listings(dir) :
          LET r == ScanMigrationFiles(listing) IN
          IF ~ioOk
          THEN /\ Finish(Err("err_scan", "io"))
               /\ fault' = TRUE
               /\ UNCHANGED migrations
          ELSE IF ~r.ok
          THEN /\ Finish(Err("err_scan", "filename"))
               /\ UNCHANGED <<migrations, fault>>
          ELSE IF NoMigrationsFound(r.migs)
          THEN /\ Finish(OkResult)
               /\ UNCHANGED <<migrations, fault>>
          ELSE /\ migrations' = r.migs
               /\ pc' = StepAfter("scan")
               /\ UNCHANGED <<ledger, schema, result, txActive, txEffects,
                              txRows, fault>>
    /\ UNCHANGED <<dir, applied, idx, statements, si, ledger0, schema0,
                   txLedger0, txSchema0, began, committed, execd, valApplied,
                   stable, sp, other, app, sr, sc, written>>

\* Step 3: GetAppliedMigrations
GetAppliedMigrations ==
    /\ pc = "getApplied"
    /\ \E ok \in BOOLEAN, m \in AppliedMaps(ledger) :
          IF ok
          THEN /\ applied' = m
               /\ pc' = StepAfter("getApplied")
               /\ UNCHANGED <<ledger, schema, result, txActive, txEffects,
                              txRows, fault>>
          ELSE /\ Finish(Err("err_get_applied", "store"))
               /\ fault' = TRUE
               /\ UNCHANGED applied
    /\ UNCHANGED <<dir, migrations, idx, statements, si, ledger0, schema0,
                   txLedger0, txSchema0, began, committed, execd, valApplied,
                   stable, sp, other, app, sr, sc, written>>

\* Step 4: ValidateChecksums, which reads the ledger again
Validate ==
    /\ pc = "validate"
    /\ \E ok \in BOOLEAN, m \in AppliedMaps(ledger) :
          LET k == ValidateChecksums(migrations, m) IN
          IF ~ok
          THEN /\ Finish(Err("err_checksum", "store"))
               /\ fault' = TRUE
               /\ UNCHANGED <<valApplied, idx>>
          ELSE IF k # 0
          THEN /\ Finish([Err("err_checksum", "mismatch") EXCEPT
                              !.version = migrations[k].Version,
                              !.name = migrations[k].Name])
               /\ valApplied' = m
               /\ UNCHANGED <<idx, fault>>
          ELSE /\ valApplied' = m
               /\ idx' = 1
               /\ pc' = StepAfter("validate")
               /\ UNCHANGED <<ledger, schema, result, txActive, txEffects,
                              txRows, fault>>
    /\ UNCHANGED <<dir, migrations, applied, statements, si, ledger0, schema0,
                   txLedger0, txSchema0, began, committed, execd, stable, sp, other, app, sr, sc, written>>

\* Step 5, `if _, exists := applied[migration.Version]; exists { continue }`
SkipApplied ==
    /\ pc = "loop"
    /\ idx <= Len(migrations)
    /\ migrations[idx].Version \in DOMAIN applied
    /\ idx' = idx + 1
    /\ UNCHANGED <<dir, ledger, schema, pc, migrations, applied, statements,
                   si, txActive, txEffects, txRows, result, ledger0, schema0,
                   txLedger0, txSchema0, began, committed, execd, valApplied,
                   fault, stable, sp, other, app, sr, sc, written>>

\* ApplyMigration: db.Begin, strip, split
BeginMigration ==
    /\ pc = "loop"
    /\ idx <= Len(migrations)
    /\ migrations[idx].Version \notin DOMAIN applied
    /\ \E ok \in BOOLEAN :
          IF ok
          THEN /\ txActive' = TRUE
               /\ txEffects' = <<>>
               /\ txRows' = {}
               /\ statements' = splitSQLStatements(
                                    stripTransactionStatements(migrations[idx].SQL))
               /\ si' = 1
               /\ began' = Append(began, migrations[idx])
               /\ txLedger0' = ledger
               /\ txSchema0' = schema
               /\ pc' = "exec"
               /\ UNCHANGED <<ledger, schema, result, fault>>
          ELSE /\ Finish([Err("err_apply", "begin") EXCEPT
                              !.version = migrations[idx].Version,
                              !.name = migrations[idx].Name])
               /\ fault' = TRUE
               /\ UNCHANGED <<statements, si, began, txLedger0, txSchema0>>
    /\ UNCHANGED <<dir, migrations, applied, idx, ledger0, schema0, committed,
                   execd, valApplied, stable, sp, other, app, sr, sc, written>>

\* ApplyMigration: one iteration of the loop over the statements
ExecStatement ==
    /\ pc = "exec"
    /\ si <= Len(statements)
    /\ LET stmt == TrimSpace(statements[si])
           m    == migrations[idx]
       IN  IF stmt = <<>>
           THEN /\ si' = si + 1
                /\ UNCHANGED <<ledger, schema, pc, result, txActive, txEffects,
                               txRows, execd, fault>>
           ELSE \E ok \in BOOLEAN :
                  /\ execd' = Append(execd, [version |-> m.Version,
                                             name |-> m.Name, index |-> si,
                                             stmt |-> stmt, ok |-> ok])
                  /\ IF ok
                     THEN /\ txEffects' = Append(txEffects,
                                  [version |-> m.Version, name |-> m.Name,
                                   stmt |-> stmt])
                          /\ si' = si + 1
                          /\ UNCHANGED <<ledger, schema, pc, result, txActive,
                                         txRows, fault>>
                     ELSE /\ Finish([Err("err_apply", "statement") EXCEPT
                                         !.version = m.Version,
                                         !.name = m.Name,
                                         !.index = StatementIndex(si - 1)])
                          /\ fault' = TRUE
                          /\ UNCHANGED si
    /\ UNCHANGED <<dir, migrations, applied, idx, statements, ledger0, schema0,
                   txLedger0, txSchema0, began, committed, valApplied, stable,
                   sp, other, app, sr, sc, written>>

\* a checksum taken over the file as it was read
RecordedChecksum_Raw(m) == CalculateChecksum(m.SQL)

\* ApplyMigration: `sql := stripTransactionStatements(migration.SQL)` and
\* `checksum := CalculateChecksum(sql)`
RecordedChecksum(m) == CalculateChecksum(stripTransactionStatements(m.SQL))

\* an insert that does not wait for the statements
LoopOver_Eager(i, stmts) == TRUE

\* `for i, stmt := range statements` has run through the slice
LoopOver(i, stmts) == i > Len(stmts)

\* ApplyMigration: INSERT INTO schema_migrations, inside the transaction
RecordMigration ==
    /\ pc = "exec"
    /\ LoopOver(si, statements)
    /\ LET m   == migrations[idx]
           row == LedgerRow(m.Version, m.Name, RecordedChecksum(m), m.SQL)
       IN  \* the insert waits while another transaction holds an
           \* uncommitted row of the same key
           /\ ~PrimaryKeyConflict(other.txRows, row)
           /\ \E ok \in BOOLEAN :
              IF ok /\ ~PrimaryKeyConflict(ledger \cup txRows, row)
              THEN /\ txRows' = txRows \cup {row}
                   /\ pc' = "commit"
                   /\ UNCHANGED <<ledger, schema, result, txActive, txEffects,
                                  fault>>
              ELSE /\ Finish([Err("err_apply", "record") EXCEPT
                                  !.version = m.Version, !.name = m.Name])
                   /\ fault' = (fault \/ ~ok)
    /\ UNCHANGED <<dir, migrations, applied, idx, statements, si, ledger0,
                   schema0, txLedger0, txSchema0, began, committed, execd,
                   valApplied, stable, sp, other, app, sr, sc, written>>

\* ApplyMigration: tx.Commit
CommitMigration ==
    /\ pc = "commit"
    /\ \E ok \in BOOLEAN :
          IF ok
          THEN /\ ledger' = CommitLedger(ledger, txRows)
               /\ schema' = CommitSchema(schema, txEffects)
               /\ txActive' = FALSE
               /\ txEffects' = <<>>
               /\ txRows' = {}
               /\ committed' = Append(committed, migrations[idx])
               /\ written' = written \cup txRows
               /\ idx' = idx + 1
               /\ pc' = "loop"
               /\ UNCHANGED <<result, fault>>
          ELSE /\ Finish([Err("err_apply", "commit") EXCEPT
                              !.version = migrations[idx].Version,
                              !.name = migrations[idx].Name])
               /\ fault' = TRUE
               /\ UNCHANGED <<committed, idx, written>>
    /\ UNCHANGED <<dir, migrations, applied, statements, si, ledger0, schema0,
                   txLedger0, txSchema0, began, execd, valApplied, stable, sp,
                   other, app, sr, sc>>

\* the loop over the migrations is over: Run returns nil
FinishRun ==
    /\ pc = "loop"
    /\ idx > Len(migrations)
    /\ Finish(OkResult)
    /\ UNCHANGED <<dir, migrations, applied, idx, statements, si, ledger0,
                   schema0, txLedger0, txSchema0, began, committed, execd,
                   valApplied, fault, stable, sp, other, app, sr, sc, written>>

\* the caller has the result of Run(); the locals of the call are gone
Return ==
    /\ pc = "done"
    /\ stable' = (result.status = "ok")
    /\ pc' = "idle"
    /\ migrations' = <<>>
    /\ applied' = NoMap
    /\ idx' = 0
    /\ statements' = <<>>
    /\ si' = 0
    /\ result' = NoResult
    /\ ledger0' = {}
    /\ schema0' = <<>>
    /\ txLedger0' = {}
    /\ txSchema0' = <<>>
    /\ began' = <<>>
    /\ committed' = <<>>
    /\ execd' = <<>>
    /\ valApplied' = NoMap
    /\ fault' = FALSE
    /\ app' = ConnectAfterRun(app, result)
    /\ UNCHANGED <<dir, ledger, schema, txActive, txEffects, txRows, sp, other,
                   written, sr, sc>>

Next ==
    \/ WriteFile
    \/ RemoveFile
    \/ StartRun
    \/ EnsureMigrationsTable
    \/ Scan
    \/ GetAppliedMigrations
    \/ Validate
    \/ SkipApplied
    \/ BeginMigration
    \/ ExecStatement
    \/ RecordMigration
    \/ CommitMigration
    \/ FinishRun
    \/ Return

Spec == Init /\ [][Next]_vars

(***************************************************************************)
(* The splitter on its own: splitSQLStatements applied, one loop iteration *)
(* per step, to every script of at most MaxTokens tokens.                  *)
(***************************************************************************)
TokDollar == <<"$", "$">>
TokTag == <<"$", "t", "$">>
TokSemi == <<";">>
\* a `$` on its own
TokLone == <<"$">>

Tokens == {<<"a">>, <<" ">>, TokSemi, TokDollar, TokTag, TokLone}

TokenSeqs == UNION {[1..n -> Tokens] : n \in 0..MaxTokens}

RECURSIVE Flatten(_)
Flatten(toks) ==
    IF toks = <<>> THEN <<>> ELSE Head(toks) \o Flatten(Tail(toks))

SplitInit ==
    /\ dir = {}
    /\ ledger = {}
    /\ schema = <<>>
    /\ stable = FALSE
    /\ RunInit
    /\ other = OtherIdle
    /\ app = AppNone
    /\ written = {}
    /\ sr = SrIdle
    /\ sc = ScIdle
    /\ sp \in {[tokens |-> t, sql |-> Flatten(t), st |-> SplitStart,
                done |-> FALSE, out |-> <<>>] : t \in TokenSeqs}

SplitIterate ==
    /\ ~sp.done
    /\ sp.st.i <= Len(sp.sql)
    /\ sp' = [sp EXCEPT !.st = SplitStep(sp.sql, sp.st)]
    /\ UNCHANGED <<dir, ledger, schema, runVars, stable, other, app, sr, sc, written>>

SplitReturn ==
    /\ ~sp.done
    /\ sp.st.i > Len(sp.sql)
    /\ sp' = [sp EXCEPT !.done = TRUE, !.out = SplitFinish(sp.st)]
    /\ UNCHANGED <<dir, ledger, schema, runVars, stable, other, app, sr, sc, written>>

SplitNext == SplitIterate \/ SplitReturn

SplitSpec == SplitInit /\ [][SplitNext]_vars

(***************************************************************************)
(* stripTransactionStatements applied to scripts made of up to MaxLines    *)
(* lines, one step per statement of its body.  sr.given is the script as   *)
(* the lines it was written with; sr.lines is what strings.Split returns.  *)
(***************************************************************************)
MaxLines == 4

LineStmt == <<"a", ";">>
LineStmtIndented == <<" ", "a", ";">>
LineBegin == BEGINs
LineBeginIndented == <<" ">> \o BEGINs
LineCommitLower == <<"c", "o", "m", "m", "i", "t", ";">>
LineBeginWork == BEGINs \o <<" ", "a">>
LineDollar == <<"$", "$">>
LineBlank == <<>>

Lines ==
    {LineStmt, LineStmtIndented, LineBegin, LineBeginIndented,
     LineCommitLower, LineBeginWork, LineDollar, LineBlank}

LineSeqs == UNION {[1..n -> Lines] : n \in 1..MaxLines}

StripInit ==
    /\ dir = {}
    /\ ledger = {}
    /\ schema = <<>>
    /\ stable = FALSE
    /\ RunInit
    /\ sp = SpIdle
    /\ other = OtherIdle
    /\ app = AppNone
    /\ written = {}
    /\ sc = ScIdle
    /\ sr \in {[SrIdle EXCEPT !.given = g, !.sql = Join(g, "\n")] :
                  g \in LineSeqs}

StripFrame ==
    UNCHANGED <<dir, ledger, schema, runVars, stable, sp, other, app,
                written, sc>>

\* `lines := strings.Split(sql, "\n")`
StripSplit ==
    /\ ~sr.done
    /\ sr.k = 0
    /\ sr' = [sr EXCEPT !.lines = SplitOn(sr.sql, "\n"), !.k = 1]
    /\ StripFrame

\* one iteration of `for _, line := range lines`
StripLine ==
    /\ ~sr.done
    /\ sr.k >= 1
    /\ sr.k <= Len(sr.lines)
    /\ sr' = [sr EXCEPT
                 !.filteredLines =
                     IF IsTxControlLine(sr.lines[sr.k]) THEN @
                     ELSE Append(@, sr.lines[sr.k]),
                 !.k = sr.k + 1]
    /\ StripFrame

\* `return strings.TrimSpace(strings.Join(filteredLines, "\n"))`
StripReturn ==
    /\ ~sr.done
    /\ sr.k > Len(sr.lines)
    /\ sr' = [sr EXCEPT !.done = TRUE,
                        !.out = TrimSpace(Join(sr.filteredLines, "\n"))]
    /\ StripFrame

StripNext == StripSplit \/ StripLine \/ StripReturn

StripSpec == StripInit /\ [][StripNext]_vars

(***************************************************************************)
(* ScanMigrationFiles applied to listings of a directory that also holds   *)
(* a subdirectory, a file without the extension and a script file without  *)
(* the separator, one step per iteration of the loop over the entries.     *)
(***************************************************************************)
\* "3_d.sql", the name of a subdirectory
FileSub == <<"3", "_", "d">> \o SqlExt
\* "4_a.md"
FileNoExt == <<"4", "_", "a", ".", "m", "d">>
\* "a.sql"
FileNoSep == <<"a">> \o SqlExt

ScanEntries ==
    {FileEntry(File1a, ScriptA), FileEntry(File2a, ScriptBC),
     FileEntry(FileXa, ScriptA), SubDirEntry(FileSub),
     FileEntry(FileNoExt, ScriptA), FileEntry(FileNoSep, ScriptA)}

ScanInit ==
    /\ dir = {}
    /\ ledger = {}
    /\ schema = <<>>
    /\ stable = FALSE
    /\ RunInit
    /\ sp = SpIdle
    /\ other = OtherIdle
    /\ app = AppNone
    /\ written = {}
    /\ sr = SrIdle
    /\ sc \in {[ScIdle EXCEPT !.entries = l, !.k = 1] :
                  l \in UNION {Listings(d) : d \in SUBSET ScanEntries}}

ScanFrame ==
    UNCHANGED <<dir, ledger, schema, runVars, stable, sp, other, app,
                written, sr>>

\* one iteration of `for _, entry := range entries`
ScanIterate ==
    /\ ~sc.done
    /\ sc.k <= Len(sc.entries)
    /\ LET r == ScanEntry(sc.entries[sc.k]) IN
       \E readOk \in BOOLEAN :
          sc' = IF r.kind = "skip" THEN [sc EXCEPT !.k = sc.k + 1]
                ELSE IF r.kind = "invalid" \/ ~readOk
                THEN [sc EXCEPT !.done = TRUE, !.ok = FALSE, !.out = <<>>]
                ELSE [sc EXCEPT !.migrations = Append(@, r.mig),
                                !.k = sc.k + 1]
    /\ ScanFrame

\* sort.Slice and `return migrations, nil`
ScanReturn ==
    /\ ~sc.done
    /\ sc.k > Len(sc.entries)
    /\ sc' = [sc EXCEPT !.done = TRUE, !.ok = TRUE,
                        !.out = SortByVersion(sc.migrations)]
    /\ ScanFrame

ScanNext == ScanIterate \/ ScanReturn

ScanSpec == ScanInit /\ [][ScanNext]_vars

(***************************************************************************)
(* Process startup: main (cmd/bot) and database.Connect around Run().      *)
(* app.db is "none" (no database configured), "unopened", "open" or        *)
(* "closed"; app.run records how the call of Run() ended.                  *)
(***************************************************************************)
AppStart == [AppNone EXCEPT !.pc = "start"]

\* logger.Fatal is log.Fatalf: the process exits
Fatal(a) == [a EXCEPT !.pc = "exited"]

\* config.Load, and `if cfg.Database != nil`
MainLoadConfig ==
    /\ app.pc = "start"
    /\ \E ok \in BOOLEAN, configured \in BOOLEAN :
          app' = IF ~ok THEN Fatal(app)
                 ELSE IF configured
                 THEN [app EXCEPT !.pc = "connect", !.db = "unopened"]
                 ELSE [app EXCEPT !.pc = "registry"]
    /\ UNCHANGED <<dir, ledger, schema, runVars, stable, sp, sr, sc,
                   other, written>>

\* Connect: sql.Open and db.Ping
ConnectOpen ==
    /\ app.pc = "connect"
    /\ \E ok \in BOOLEAN :
          app' = IF ok THEN [app EXCEPT !.pc = "run", !.db = "open"]
                 ELSE [app EXCEPT !.pc = "connect_failed", !.db = "closed"]
    /\ UNCHANGED <<dir, ledger, schema, runVars, stable, sp, sr, sc,
                   other, written>>

\* Connect: ensureAutoPopulateTrigger, after Run() returned nil
EnsureTrigger ==
    /\ app.pc = "trigger"
    /\ \E ok \in BOOLEAN :
          app' = IF ok THEN [app EXCEPT !.pc = "registry", !.trigger = TRUE]
                 ELSE [app EXCEPT !.pc = "connect_failed", !.db = "closed"]
    /\ UNCHANGED <<dir, ledger, schema, runVars, stable, sp, sr, sc,
                   other, written>>

\* main: Connect returned an error
MainFatal ==
    /\ app.pc = "connect_failed"
    /\ app' = Fatal(app)
    /\ UNCHANGED <<dir, ledger, schema, runVars, stable, sp, sr, sc,
                   other, written>>

\* main: `if db != nil { serviceRegistry.InitializeAll(db) }`
MainInitServices ==
    /\ app.pc = "registry"
    /\ \E ok \in BOOLEAN :
          app' = IF app.db # "open" THEN [app EXCEPT !.pc = "bot"]
                 ELSE IF ok THEN [app EXCEPT !.pc = "bot", !.services = TRUE]
                 ELSE Fatal(app)
    /\ UNCHANGED <<dir, ledger, schema, runVars, stable, sp, sr, sc,
                   other, written>>

\* main: bot.NewBot and discordBot.Start
MainStartBot ==
    /\ app.pc = "bot"
    /\ \E ok \in BOOLEAN :
          app' = IF ok THEN [app EXCEPT !.pc = "serving", !.bot = TRUE]
                 ELSE Fatal(app)
    /\ UNCHANGED <<dir, ledger, schema, runVars, stable, sp, sr, sc,
                   other, written>>

\* main: the interrupt signal; the deferred Stop and Close run
MainShutdown ==
    /\ app.pc = "serving"
    /\ app' = [app EXCEPT !.pc = "exited",
                          !.db = IF app.db = "open" THEN "closed" ELSE @]
    /\ UNCHANGED <<dir, ledger, schema, runVars, stable, sp, sr, sc,
                   other, written>>

StartupInit ==
    /\ dir \in Directories
    /\ ledger \in {{}} \cup {{r} : r \in LegacyRows(dir)}
    /\ schema = <<>>
    /\ stable = FALSE
    /\ sp = SpIdle
    /\ other = OtherIdle
    /\ app = AppStart
    /\ written = {}
    /\ sr = SrIdle
    /\ sc = ScIdle
    /\ RunInit

StartupNext ==
    \/ MainLoadConfig
    \/ ConnectOpen
    \/ StartRun
    \/ EnsureMigrationsTable
    \/ Scan
    \/ GetAppliedMigrations
    \/ Validate
    \/ SkipApplied
    \/ BeginMigration
    \/ ExecStatement
    \/ RecordMigration
    \/ CommitMigration
    \/ FinishRun
    \/ Return
    \/ EnsureTrigger
    \/ MainFatal
    \/ MainInitServices
    \/ MainStartBot
    \/ MainShutdown

StartupSpec == StartupInit /\ [][StartupNext]_vars

(***************************************************************************)
(* Two instances of Run() on the same store and the same source.  The      *)
(* second instance is the record `other`; its steps are the steps of       *)
(* Run() above.  A transaction sees committed rows only, and an insert     *)
(* whose key another open transaction has inserted waits for the end of    *)
(* that transaction.                                                       *)
(***************************************************************************)
OtherFrame == UNCHANGED <<dir, runVars, stable, sp, app, sr, sc>>

\* the second Run() returns res; an open transaction is rolled back
OtherFinish(res, failed) ==
    /\ other' = [other EXCEPT !.pc = "done", !.result = res,
                              !.txActive = FALSE, !.txEffects = <<>>,
                              !.txRows = {},
                              !.fault = other.fault \/ failed]
    /\ schema' = IF other.txActive
                 THEN RollbackSchema(schema, other.txEffects) ELSE schema
    /\ ledger' = IF other.txActive
                 THEN RollbackLedger(ledger, other.txRows) ELSE ledger
    /\ UNCHANGED written

OtherStart ==
    /\ other.pc = "idle"
    /\ other' = [other EXCEPT !.pc = RunSteps[1]]
    /\ UNCHANGED <<ledger, schema, written>>
    /\ OtherFrame

OtherEnsure ==
    /\ other.pc = "ensure"
    /\ \E ok \in BOOLEAN :
          IF ok
          THEN /\ other' = [other EXCEPT !.pc = StepAfter("ensure")]
               /\ UNCHANGED <<ledger, schema, written>>
          ELSE OtherFinish(Err("err_ensure", "store"), TRUE)
    /\ OtherFrame

OtherScan ==
    /\ other.pc = "scan"
    /\ \E ioOk \in BOOLEAN, listing \in Listings(dir) :
          LET r == ScanMigrationFiles(listing) IN
          IF ~ioOk THEN OtherFinish(Err("err_scan", "io"), TRUE)
          ELSE IF ~r.ok THEN OtherFinish(Err("err_scan", "filename"), FALSE)
          ELSE IF NoMigrationsFound(r.migs) THEN OtherFinish(OkResult, FALSE)
          ELSE /\ other' = [other EXCEPT !.migrations = r.migs,
                                         !.pc = StepAfter("scan")]
               /\ UNCHANGED <<ledger, schema, written>>
    /\ OtherFrame

OtherGetApplied ==
    /\ other.pc = "getApplied"
    /\ \E ok \in BOOLEAN, m \in AppliedMaps(ledger) :
          IF ok
          THEN /\ other' = [other EXCEPT !.applied = m,
                                         !.pc = StepAfter("getApplied")]
               /\ UNCHANGED <<ledger, schema, written>>
          ELSE OtherFinish(Err("err_get_applied", "store"), TRUE)
    /\ OtherFrame

OtherValidate ==
    /\ other.pc = "validate"
    /\ \E ok \in BOOLEAN, m \in AppliedMaps(ledger) :
          LET k == ValidateChecksums(other.migrations, m) IN
          IF ~ok THEN OtherFinish(Err("err_checksum", "store"), TRUE)
          ELSE IF k # 0
          THEN OtherFinish([Err("err_checksum", "mismatch") EXCEPT
                                !.version = other.migrations[k].Version,
                                !.name = other.migrations[k].Name], FALSE)
          ELSE /\ other' = [other EXCEPT !.idx = 1,
                                         !.pc = StepAfter("validate")]
               /\ UNCHANGED <<ledger, schema, written>>
    /\ OtherFrame

OtherSkipApplied ==
    /\ other.pc = "loop"
    /\ other.idx <= Len(other.migrations)
    /\ other.migrations[other.idx].Version \in DOMAIN other.applied
    /\ other' = [other EXCEPT !.idx = other.idx + 1]
    /\ UNCHANGED <<ledger, schema, written>>
    /\ OtherFrame

OtherBeginMigration ==
    /\ other.pc = "loop"
    /\ other.idx <= Len(other.migrations)
    /\ other.migrations[other.idx].Version \notin DOMAIN other.applied
    /\ LET m == other.migrations[other.idx] IN
       \E ok \in BOOLEAN :
          IF ok
          THEN /\ other' = [other EXCEPT
                     !.txActive = TRUE, !.txEffects = <<>>, !.txRows = {},
                     !.statements = splitSQLStatements(
                                        stripTransactionStatements(m.SQL)),
                     !.si = 1, !.began = Append(other.began, m),
                     !.pc = "exec"]
               /\ UNCHANGED <<ledger, schema, written>>
          ELSE OtherFinish([Err("err_apply", "begin") EXCEPT
                                !.version = m.Version, !.name = m.Name], TRUE)
    /\ OtherFrame

OtherExecStatement ==
    /\ other.pc = "exec"
    /\ other.si <= Len(other.statements)
    /\ LET stmt == TrimSpace(other.statements[other.si])
           m    == other.migrations[other.idx]
       IN  IF stmt = <<>>
           THEN /\ other' = [other EXCEPT !.si = other.si + 1]
                /\ UNCHANGED <<ledger, schema, written>>
           ELSE \E ok \in BOOLEAN :
                  IF ok
                  THEN /\ other' = [other EXCEPT
                             !.txEffects = Append(other.txEffects,
                                 [version |-> m.Version, name |-> m.Name,
                                  stmt |-> stmt]),
                             !.si = other.si + 1]
                       /\ UNCHANGED <<ledger, schema, written>>
                  ELSE OtherFinish([Err("err_apply", "statement") EXCEPT
                                        !.version = m.Version,
                                        !.name = m.Name,
                                        !.index = StatementIndex(other.si - 1)],
                                   TRUE)
    /\ OtherFrame

OtherRecordMigration ==
    /\ other.pc = "exec"
    /\ LoopOver(other.si, other.statements)
    /\ LET m   == other.migrations[other.idx]
           row == LedgerRow(m.Version, m.Name, RecordedChecksum(m), m.SQL)
       IN  /\ ~PrimaryKeyConflict(txRows, row)
           /\ \E ok \in BOOLEAN :
              IF ok /\ ~PrimaryKeyConflict(ledger \cup other.txRows, row)
              THEN /\ other' = [other EXCEPT
                         !.txRows = other.txRows \cup {row},
                         !.pc = "commit"]
                   /\ UNCHANGED <<ledger, schema, written>>
              ELSE OtherFinish([Err("err_apply", "record") EXCEPT
                                    !.version = m.Version, !.name = m.Name],
                               ~ok)
    /\ OtherFrame

OtherCommitMigration ==
    /\ other.pc = "commit"
    /\ LET m == other.migrations[other.idx] IN
       \E ok \in BOOLEAN :
          IF ok
          THEN /\ ledger' = CommitLedger(ledger, other.txRows)
               /\ schema' = CommitSchema(schema, other.txEffects)
               /\ written' = written \cup other.txRows
               /\ other' = [other EXCEPT
                     !.txActive = FALSE, !.txEffects = <<>>, !.txRows = {},
                     !.committed = Append(other.committed, m),
                     !.idx = other.idx + 1, !.pc = "loop"]
          ELSE OtherFinish([Err("err_apply", "commit") EXCEPT
                                !.version = m.Version, !.name = m.Name], TRUE)
    /\ OtherFrame

OtherFinishRun ==
    /\ other.pc = "loop"
    /\ other.idx > Len(other.migrations)
    /\ OtherFinish(OkResult, FALSE)
    /\ OtherFrame

ConcNext ==
    \/ StartRun
    \/ EnsureMigrationsTable
    \/ Scan
    \/ GetAppliedMigrations
    \/ Validate
    \/ SkipApplied
    \/ BeginMigration
    \/ ExecStatement
    \/ RecordMigration
    \/ CommitMigration
    \/ FinishRun
    \/ OtherStart
    \/ OtherEnsure
    \/ OtherScan
    \/ OtherGetApplied
    \/ OtherValidate
    \/ OtherSkipApplied
    \/ OtherBeginMigration
    \/ OtherExecStatement
    \/ OtherRecordMigration
    \/ OtherCommitMigration
    \/ OtherFinishRun

ConcSpec == Init /\ [][ConcNext]_vars

(***************************************************************************)
(* Notions shared by the properties                                        *)
(***************************************************************************)
\* the two digests validation accepts for a migration
Digests(m) ==
    {CalculateChecksum(stripTransactionStatements(m.SQL)),
     CalculateChecksum(m.SQL)}

\* the migrations a scan of directory d discovers
Discovered(d) ==
    {ScanEntry(e).mig : e \in {x \in d : ScanEntry(x).kind = "migration"}}

InRun == pc # "idle"

\* this Run() got past ValidateChecksums
PassedValidation ==
    \/ pc \in {"loop", "exec", "commit"}
    \/ pc = "done" /\ result.status \in {"ok", "err_apply"} /\ migrations # <<>>

\* ValidateChecksums of this Run() found a mismatch
FailedValidation ==
    pc = "done" /\ result.status = "err_checksum" /\ result.kind = "mismatch"

DistinctVersions(migs) ==
    \A i, j \in 1..Len(migs) : i # j => migs[i].Version # migs[j].Version

(***************************************************************************)
(* C1: within one Run() the migrations are applied in strictly ascending   *)
(* version order: no migration is committed after one of a greater or      *)
(* equal version.                                                          *)
(***************************************************************************)
C1_StrictlyAscending ==
    \A i, j \in 1..Len(committed) :
        i < j => committed[i].Version < committed[j].Version

(***************************************************************************)
(* C2: while a migration's transaction is open, and after Run() returned   *)
(* the error of a failed statement, ledger insert or commit, the store     *)
(* holds no effect of that migration's statements and no ledger row of     *)
(* it: schema and ledger are what they were when the transaction began.    *)
(***************************************************************************)
C2_Atomic ==
    (\/ txActive
     \/ /\ pc = "done"
        /\ result.status = "err_apply"
        /\ result.kind \in {"statement", "record", "commit"})
    => /\ ledger = txLedger0
       /\ schema = txSchema0
       /\ \A k \in 1..Len(schema) :
              \A t \in 1..Len(txEffects) : schema[k] # txEffects[t]

\* Run() returned the error of a statement that was not the first: the
\* statements before it had been executed in the transaction
C2_Witness ==
    /\ pc = "done"
    /\ result.status = "err_apply"
    /\ result.kind = "statement"
    /\ result.index >= 2
    /\ \E k \in 1..Len(execd) :
          execd[k].ok /\ execd[k].version = result.version
                      /\ execd[k].name = result.name

(***************************************************************************)
(* C3: a Run() that follows a successful Run() over the unchanged          *)
(* directory begins no transaction, executes no statement, leaves ledger   *)
(* and schema as they were and, the store not failing, succeeds.           *)
(***************************************************************************)
C3_SecondRunIsNoOp ==
    (stable /\ InRun)
    => /\ began = <<>>
       /\ execd = <<>>
       /\ ledger = ledger0
       /\ schema = schema0
       /\ (pc = "done" /\ ~fault => result.status = "ok")

(***************************************************************************)
(* C4: if, when Run() starts, the ledger holds a row of version N whose    *)
(* checksum is neither the stripped nor the raw digest of a discovered     *)
(* script of version N, Run() returns an error (the checksum mismatch,     *)
(* unless an earlier step failed) without beginning a transaction and      *)
(* leaves ledger and schema unchanged.                                     *)
(***************************************************************************)
C4_Mismatch ==
    \E r \in ledger0 : \E m \in Discovered(dir) :
        m.Version = r.version /\ r.checksum \notin Digests(m)

C4_MismatchAborts ==
    (InRun /\ C4_Mismatch)
    => /\ began = <<>>
       /\ ledger = ledger0
       /\ schema = schema0
       /\ pc \notin {"loop", "exec", "commit"}
       /\ (pc = "done" =>
              result.status \in {"err_ensure", "err_scan", "err_get_applied",
                                 "err_checksum"})

(***************************************************************************)
(* C5: when validation has passed, every row of the ledger and every       *)
(* discovered script of the row's version have the same stripped text:     *)
(* the script did not change, after stripping, since the row was recorded. *)
(***************************************************************************)
C5_NoChangedContentPasses ==
    PassedValidation
    => \A r \in ledger0 : \A k \in 1..Len(migrations) :
           migrations[k].Version = r.version
           => stripTransactionStatements(migrations[k].SQL)
                  = stripTransactionStatements(r.script)

(***************************************************************************)
(* C6: validation passes if and only if every discovered migration whose   *)
(* version is in the ledger has a stored checksum of that version equal    *)
(* to its stripped or its raw digest.                                      *)
(***************************************************************************)
C6_Accepted ==
    \A k \in 1..Len(migrations) :
        migrations[k].Version \in LedgerVersions(ledger0)
        => \E r \in ledger0 : /\ r.version = migrations[k].Version
                              /\ r.checksum \in Digests(migrations[k])

C6_PassesIffEitherDigest ==
    /\ PassedValidation => C6_Accepted
    /\ FailedValidation => ~C6_Accepted

(***************************************************************************)
(* C7: the ledger holds exactly one entry per version.                     *)
(***************************************************************************)
C7_OneEntryPerVersion ==
    \A r1, r2 \in ledger : r1.version = r2.version => r1 = r2

(***************************************************************************)
(* C8: whenever Run() got past validation or returned success, every       *)
(* entry of the ledger has a discovered migration of its version with a    *)
(* matching stripped or raw digest.                                        *)
(***************************************************************************)
C8_EveryEntryHasSource ==
    (PassedValidation \/ (pc = "done" /\ result.status = "ok"))
    => \A r \in ledger0 : \E k \in 1..Len(migrations) :
           /\ migrations[k].Version = r.version
           /\ r.checksum \in Digests(migrations[k])

(***************************************************************************)
(* C8, amended: whenever Run() got past validation, every discovered       *)
(* migration whose version validation found in the ledger matches, by its  *)
(* stripped or raw digest, the entry validation read for that version; a   *)
(* mismatch is only ever reported for a discovered migration.  Entries     *)
(* without a discovered script are not validated.                          *)
(***************************************************************************)
C8_DiscoveredEntriesMatch ==
    /\ PassedValidation
       => \A k \in 1..Len(migrations) :
              migrations[k].Version \in DOMAIN valApplied
              => /\ valApplied[migrations[k].Version] \in ledger0
                 /\ valApplied[migrations[k].Version].checksum
                        \in Digests(migrations[k])
    /\ FailedValidation
       => \E k \in 1..Len(migrations) :
              /\ migrations[k].Version = result.version
              /\ migrations[k].Name = result.name
              /\ migrations[k].Version \in DOMAIN valApplied
              /\ valApplied[migrations[k].Version].checksum
                     \notin Digests(migrations[k])

\* Run() succeeded although the ledger holds an entry whose version no
\* discovered migration has, next to an entry that was validated
C8_Witness ==
    /\ pc = "done"
    /\ result.status = "ok"
    /\ migrations # <<>>
    /\ \E r \in ledger0 : \A k \in 1..Len(migrations) :
           migrations[k].Version # r.version
    /\ \E k \in 1..Len(migrations) : migrations[k].Version \in DOMAIN valApplied

(***************************************************************************)
(* C9: after a successful Run() over a source with distinct versions the   *)
(* versions of the ledger are those it had before together with the        *)
(* discovered ones, and the migrations executed and committed are exactly  *)
(* the discovered ones whose version was not in the ledger, each once, in  *)
(* the order of the scan.                                                  *)
(***************************************************************************)
C9_Pending(m) == m.Version \notin LedgerVersions(ledger0)

C10_Plain(toks, from, to) ==
    \A k \in from..to : toks[k] \notin {TokSemi, TokDollar, TokTag}

\* positions <<p, q, r>> of the opening delimiter, the closing delimiter
\* and the `;` that ends the first statement
C10_Shapes(toks) ==
    {c \in (1..Len(toks)) \X (1..Len(toks)) \X (1..Len(toks)) :
        /\ c[1] < c[2] /\ c[2] < c[3] /\ c[3] < Len(toks)
        /\ toks[c[1]] \in {TokDollar, TokTag}
        /\ toks[c[2]] = toks[c[1]]
        /\ toks[c[3]] = TokSemi
        /\ toks[Len(toks)] = TokSemi
        /\ C10_Plain(toks, 1, c[1] - 1)
        /\ \A k \in (c[1] + 1)..(c[2] - 1) : toks[k] \notin {TokDollar, TokTag}
        /\ \E k \in (c[1] + 1)..(c[2] - 1) : toks[k] = TokSemi
        /\ C10_Plain(toks, c[2] + 1, c[3] - 1)
        /\ C10_Plain(toks, c[3] + 1, Len(toks) - 1)
        /\ \E k \in (c[3] + 1)..(Len(toks) - 1) : toks[k] = <<"a">>}

C10_BlockThenStatement ==
    sp.done
    => \A c \in C10_Shapes(sp.tokens) :
           sp.out = << TrimSpace(Flatten(SubSeq(sp.tokens, 1, c[3]))),
                       TrimSpace(Flatten(SubSeq(sp.tokens, c[3] + 1,
                                                Len(sp.tokens)))) >>

(***************************************************************************)
(* C11: every ledger entry Run() writes carries the digest of the script   *)
(* after the transaction-control lines were removed, which is the text     *)
(* handed to the splitter, and not the digest of the raw file; when a      *)
(* later Run() compares such an entry with the unchanged migration it was   *)
(* written for, the stripped digest alone matches and validation does not  *)
(* report that migration.                                                  *)
(***************************************************************************)
C11_OwnEntry(m) ==
    /\ m.Version \in DOMAIN valApplied
    /\ valApplied[m.Version] \in written
    /\ valApplied[m.Version].name = m.Name
    /\ valApplied[m.Version].script = m.SQL

C13_ExecutedOf(version, name) ==
    LET Mine(e) == e.version = version /\ e.name = name
    IN  SelectSeq(execd, Mine)

C13_InOrder(ex, n) ==
    /\ Len(ex) = n
    /\ \A t \in 1..n :
          /\ ex[t].index = t
          /\ ex[t].stmt = TrimSpace(statements[t])

C13_StatementsInOrder ==
    /\ pc \in {"exec", "commit"}
       => LET ex == C13_ExecutedOf(migrations[idx].Version,
                                   migrations[idx].Name)
          IN  /\ C13_InOrder(ex, si - 1)
              /\ \A t \in 1..Len(ex) : ex[t].ok
    /\ (pc = "done" /\ result.status = "err_apply"
                    /\ result.kind = "statement")
       => LET ex == C13_ExecutedOf(result.version, result.name)
              j  == result.index
          IN  /\ result.version = migrations[idx].Version
              /\ result.name = migrations[idx].Name
              /\ statements = splitSQLStatements(
                                 stripTransactionStatements(
                                     migrations[idx].SQL))
              /\ j \in 1..Len(statements)
              /\ C13_InOrder(ex, j)
              /\ \A t \in 1..j : ex[t].ok = (t < j)
              /\ execd[Len(execd)] = ex[j]

\* the second statement of a migration failed after the first was executed
C13_Witness ==
    /\ pc = "done"
    /\ result.status = "err_apply"
    /\ result.kind = "statement"
    /\ result.index = 2
    /\ Len(statements) = 2
    /\ Len(C13_ExecutedOf(result.version, result.name)) = 2
    /\ Len(execd) > 2

(***************************************************************************)
(* C12: when Run() fails while applying migration N (a statement, the      *)
(* ledger insert or the commit failed), every migration this Run()         *)
(* committed before N stays committed with its ledger entry and its        *)
(* effects, no migration after N is attempted, and Run() returns an error  *)
(* instead of continuing.                                                  *)
(***************************************************************************)
C12_FailedApplying ==
    /\ pc = "done"
    /\ result.status = "err_apply"
    /\ result.kind \in {"statement", "record", "commit"}

C12_StaysCommitted(c) ==
    LET stmts == splitSQLStatements(stripTransactionStatements(c.SQL))
    IN  /\ LedgerRow(c.Version, c.Name, RecordedChecksum(c), c.SQL) \in ledger
        /\ \A t \in 1..Len(stmts) : \E k \in 1..Len(schema) :
               schema[k] = [version |-> c.Version, name |-> c.Name,
                            stmt |-> TrimSpace(stmts[t])]

C12_FailureAborts ==
    C12_FailedApplying
    => /\ result.version = migrations[idx].Version
       /\ result.name = migrations[idx].Name
       /\ began = Append(committed, migrations[idx])
       /\ \A k \in 1..Len(committed) :
              /\ committed[k].Version <= migrations[idx].Version
              /\ C12_StaysCommitted(committed[k])
       /\ ledger0 \subseteq ledger
       /\ \A k \in 1..Len(migrations) :
              k > idx => /\ \A b \in 1..Len(began) : began[b] # migrations[k]
                         /\ \A e \in 1..Len(execd) :
                                ~(/\ execd[e].version = migrations[k].Version
                                  /\ execd[e].name = migrations[k].Name)
       /\ \A b \in 1..Len(began) :
              began[b].Version <= migrations[idx].Version
       /\ ~txActive

\* a migration failed after an earlier one was committed and with a later
\* one still to come
C12_Witness ==
    /\ C12_FailedApplying
    /\ Len(committed) >= 1
    /\ idx < Len(migrations)
    /\ migrations[idx + 1].Version > migrations[idx].Version
    /\ migrations[idx + 1].Version \notin DOMAIN applied

(***************************************************************************)
(* C15: if some script file of the source has a name whose leading token   *)
(* does not parse as an integer, the scan fails as a whole: it returns no  *)
(* migrations, and Run() returns an error without reading the ledger,      *)
(* validating or applying any migration, the well-formed ones included.    *)
(***************************************************************************)
C15_InvalidName(d) == \E e \in d : ScanEntry(e).kind = "invalid"

C15_InvalidFilenameAborts ==
    (InRun /\ C15_InvalidName(dir))
    => /\ pc \in {"ensure", "scan", "done"}
       /\ migrations = <<>>
       /\ applied = NoMap
       /\ valApplied = NoMap
       /\ began = <<>>
       /\ execd = <<>>
       /\ ledger = ledger0
       /\ schema = schema0
       /\ pc = "done"
          => /\ result.status \in {"err_ensure", "err_scan"}
             /\ ~fault => /\ result.status = "err_scan"
                          /\ result.kind = "filename"

\* Run() failed on a file name although a well-formed, pending script is
\* in the source as well
C15_Witness ==
    /\ pc = "done"
    /\ result.status = "err_scan"
    /\ result.kind = "filename"
    /\ C15_InvalidName(dir)
    /\ \E m \in Discovered(dir) : m.Version \notin LedgerVersions(ledger)

(***************************************************************************)
(* C16: every migration a successful scan returns has a non-negative       *)
(* version, a file name with a negative leading token being rejected, and  *)
(* Run() never writes a ledger entry with a negative version.              *)
(***************************************************************************)
C16_NoNegativeVersion ==
    /\ \A k \in 1..Len(migrations) : migrations[k].Version >= 0
    /\ \A r \in written : r.version >= 0
    /\ (pc = "done" /\ ~fault /\ \E e \in dir : e.name = FileNeg)
       => (result.status = "err_scan" /\ result.kind = "filename")

(***************************************************************************)
(* C17: a failure to create the ledger table or to query it aborts Run()   *)
(* before the migration source is scanned: the ledger is ensured and read  *)
(* before the scan, and no file is read when the ledger is unavailable.    *)
(***************************************************************************)
C17_LedgerBeforeScan ==
    /\ pc = "getApplied" => migrations = <<>>
    /\ (pc = "done" /\ result.status \in {"err_ensure", "err_get_applied"})
       => migrations = <<>>

(***************************************************************************)
(* C17, amended: a failure to create the ledger table aborts Run() before  *)
(* the source is scanned; the ledger is queried after the scan has found   *)
(* migrations, and a failure of that query aborts Run() before validation: *)
(* no checksum is compared, no transaction is begun, and the ledger and    *)
(* the schema are left as they were.                                       *)
(***************************************************************************)
C17_Untouched ==
    /\ applied = NoMap
    /\ valApplied = NoMap
    /\ began = <<>>
    /\ execd = <<>>
    /\ ledger = ledger0
    /\ schema = schema0

C17_LedgerFailureAborts ==
    /\ (pc = "done" /\ result.status = "err_ensure")
       => (migrations = <<>> /\ C17_Untouched)
    /\ pc \in {"ensure", "scan"} => (migrations = <<>> /\ C17_Untouched)
    /\ pc = "getApplied" => (migrations # <<>> /\ C17_Untouched)
    /\ (pc = "done" /\ result.status = "err_get_applied")
       => (migrations # <<>> /\ C17_Untouched)

\* the query of a ledger that holds rows failed after the scan found files
C17_Witness ==
    /\ pc = "done"
    /\ result.status = "err_get_applied"
    /\ Len(migrations) >= 2
    /\ ledger # {}

(***************************************************************************)
(* C18: when the scan discovers zero migrations, Run() returns success     *)
(* after only ensuring that the ledger table exists: it begins no          *)
(* transaction, executes no statement and leaves the ledger unchanged,     *)
(* whatever the ledger already contains.                                   *)
(***************************************************************************)
C18_NothingToDiscover(d) == Discovered(d) = {} /\ ~C15_InvalidName(d)

C18_EmptySourceIsNoOp ==
    (InRun /\ C18_NothingToDiscover(dir))
    => /\ pc \in {"ensure", "scan", "done"}
       /\ migrations = <<>>
       /\ applied = NoMap
       /\ valApplied = NoMap
       /\ began = <<>>
       /\ execd = <<>>
       /\ ~txActive
       /\ ledger = ledger0
       /\ schema = schema0
       /\ (pc = "done" /\ ~fault) => result = OkResult

\* Run() returned success over an empty source and a ledger that holds rows
C18_Witness ==
    /\ pc = "done"
    /\ result = OkResult
    /\ C18_NothingToDiscover(dir)
    /\ ledger0 # {}
    /\ ledger = ledger0

(***************************************************************************)
(* C20: the pending set of a Run() is the discovered migrations whose      *)
(* version is greater than the highest version in the ledger: a migration  *)
(* whose version is lower than some already-applied version is never       *)
(* applied, so the ledger's entries are created in ascending version       *)
(* order.                                                                  *)
(***************************************************************************)
C20_OnlyAboveHighestApplied ==
    \A k \in 1..Len(began) : \A r \in ledger0 :
        began[k].Version > r.version

(***************************************************************************)
(* C19: on every startup path with a configured database Run() completes   *)
(* successfully before any service is initialized with the store handle    *)
(* and before the bot starts; if Run() returns an error, Connect closes    *)
(* the connection and returns an error, no service is initialized, the     *)
(* trigger-installation step is not executed and the process exits         *)
(* instead of serving.                                                     *)
(***************************************************************************)
C19_MigrationsBeforeServing ==
    /\ (app.db # "none" /\ (app.trigger \/ app.services \/ app.bot
                            \/ app.pc \in {"registry", "bot", "serving"}))
       => (app.run = "ok" /\ pc = "idle")
    /\ InRun
       => /\ app.pc = "run"
          /\ app.db = "open"
          /\ app.run = "none"
          /\ ~app.trigger /\ ~app.services /\ ~app.bot
    /\ app.run = "failed"
       => /\ app.db = "closed"
          /\ app.pc \in {"connect_failed", "exited"}
          /\ ~app.trigger /\ ~app.services /\ ~app.bot
          /\ pc = "idle"

\* Run() failed on a migration and the process exited without serving
C19_Witness ==
    /\ app.run = "failed"
    /\ app.pc = "exited"
    /\ app.db = "closed"
    /\ ledger # {}

(***************************************************************************)
(* C14: when two instances of Run() execute concurrently against the same  *)
(* database and the same source, in every interleaving each migration ends *)
(* with at most one ledger entry and its statements' effects are committed *)
(* at most once: the instance that loses the race on a migration gets a    *)
(* failed ledger insert, its transaction is rolled back and its Run()      *)
(* returns an error.                                                       *)
(***************************************************************************)
C14_In(m, s) == \E k \in 1..Len(s) : s[k] = m

\* an instance that is done, began m and did not commit it
C14_Lost(m, p, b, c) == p = "done" /\ C14_In(m, b) /\ ~C14_In(m, c)

C14_ReturnedError(m, res, active, rows, failed, won) ==
    /\ res.status = "err_apply"
    /\ res.version = m.Version
    /\ res.name = m.Name
    /\ ~active
    /\ rows = {}
    /\ (won /\ ~failed) => res.kind = "record"

C14_AppliedAtMostOnce ==
    /\ \A r1, r2 \in ledger :
           (r1.version = r2.version /\ r1.name = r2.name) => r1 = r2
    /\ \A i, j \in 1..Len(schema) : i # j => schema[i] # schema[j]
    /\ \A i \in 1..Len(committed) : ~C14_In(committed[i], other.committed)
    /\ \A i \in 1..Len(committed) :
           LedgerRow(committed[i].Version, committed[i].Name,
                     RecordedChecksum(committed[i]), committed[i].SQL)
               \in ledger
    /\ \A m \in Discovered(dir) :
           /\ C14_Lost(m, pc, began, committed)
              => C14_ReturnedError(m, result, txActive, txRows, fault,
                                   C14_In(m, other.committed))
           /\ C14_Lost(m, other.pc, other.began, other.committed)
              => C14_ReturnedError(m, other.result, other.txActive,
                                   other.txRows, other.fault,
                                   C14_In(m, committed))
           /\ (/\ pc = "done" /\ other.pc = "done"
               /\ ~fault /\ ~other.fault
               /\ C14_In(m, began) /\ C14_In(m, other.began))
              => (C14_In(m, committed) \/ C14_In(m, other.committed))

\* both instances executed the statements of one migration; one committed
\* it and the insert of the other failed
C14_Witness ==
    /\ pc = "done"
    /\ other.pc = "done"
    /\ ~fault /\ ~other.fault
    /\ \E m \in Discovered(dir) :
          /\ C14_In(m, committed)
          /\ C14_Lost(m, other.pc, other.began, other.committed)
          /\ other.result.kind = "record"
          /\ \E k \in 1..Len(schema) :
                schema[k].version = m.Version /\ schema[k].name = m.Name

(***************************************************************************)
(* Notions shared by the properties of the splitter                        *)
(***************************************************************************)
IsSubstring(t, s) ==
    \E p \in 0..(Len(s) - Len(t)) : SubSeq(s, p + 1, p + Len(t)) = t

RECURSIVE TotalLen(_)
TotalLen(ss) == IF ss = <<>> THEN 0 ELSE Len(Head(ss)) + TotalLen(Tail(ss))

(***************************************************************************)
(* C21: the splitter copies every input character to its output once and   *)
(* adds none: each statement it returns is a trimmed contiguous substring  *)
(* of the input, a closing delimiter is emitted once, and after the        *)
(* closing delimiter of a block the splitter is outside a block.           *)
(***************************************************************************)
C21_CopiesEachCharacterOnce ==
    /\ ~sp.done
       => TotalLen(sp.st.statements) + Len(sp.st.current) <= sp.st.i - 1
    /\ sp.done
       => /\ \A k \in 1..Len(sp.out) : IsSubstring(sp.out[k], sp.sql)
          /\ TotalLen(sp.out) <= Len(sp.sql)

(***************************************************************************)
(* C22: no statement the splitter returns is empty after trimming or a     *)
(* bare `;`; and for a script without `$` the result is, in order, the     *)
(* trimmed `;`-terminated segments of the script, each with its            *)
(* terminator and the empty ones dropped, followed by the trimmed text     *)
(* after the last `;` when that text is not empty.                         *)
(***************************************************************************)
C22_NotBare(stmt) == stmt # <<";">>

C22_Segments(s) ==
    LET pieces     == SplitOn(s, ";")
        n          == Len(pieces)
        terminated == [k \in 1..(n - 1) |-> TrimSpace(Append(pieces[k], ";"))]
        rest       == TrimSpace(pieces[n])
    IN  SelectSeq(terminated, C22_NotBare)
            \o (IF rest # <<>> THEN <<rest>> ELSE <<>>)

C22_NoDollar(s) == \A k \in 1..Len(s) : s[k] # "$"

C22_SegmentsOfPlainScript ==
    sp.done
    => /\ \A k \in 1..Len(sp.out) :
              /\ TrimSpace(sp.out[k]) # <<>>
              /\ TrimSpace(sp.out[k]) # <<";">>
       /\ C22_NoDollar(sp.sql) => sp.out = C22_Segments(sp.sql)

\* a script with an empty segment and no terminator at its end was split
C22_Witness ==
    /\ sp.done
    /\ C22_NoDollar(sp.sql)
    /\ Len(sp.out) = 2
    /\ sp.out[2][Len(sp.out[2])] # ";"
    /\ Cardinality({k \in 1..Len(sp.sql) : sp.sql[k] = ";"}) >= 2
    /\ sp.sql[1] = " "

(***************************************************************************)
(* C23: transaction-control stripping returns the lines of the script in   *)
(* their original order with exactly those lines removed whose trimmed,    *)
(* upper-cased content is BEGIN, BEGIN;, COMMIT or COMMIT;, and with the   *)
(* leading and trailing whitespace of the whole result trimmed; no other   *)
(* line is removed, reordered or altered.                                  *)
(***************************************************************************)
C23_ControlWords ==
    {<<"B", "E", "G", "I", "N">>, <<"B", "E", "G", "I", "N", ";">>,
     <<"C", "O", "M", "M", "I", "T">>, <<"C", "O", "M", "M", "I", "T", ";">>}

C23_Kept(line) == ToUpper(TrimSpace(line)) \notin C23_ControlWords

C27_DollarLinesBefore(k) ==
    Cardinality({j \in 1..(k - 1) : sr.given[j] = LineDollar})

\* lines i..k are a block: an opening delimiter, its closing delimiter and
\* the lines between them
C27_IsBlock(i, k) ==
    /\ i < k
    /\ sr.given[i] = LineDollar
    /\ sr.given[k] = LineDollar
    /\ C27_DollarLinesBefore(i) % 2 = 0
    /\ \A j \in (i + 1)..(k - 1) : sr.given[j] # LineDollar

C27_BlocksUnchanged ==
    sr.done
    => \A i, k \in 1..Len(sr.given) :
           C27_IsBlock(i, k)
           => IsSubstring(Join(SubSeq(sr.given, i, k), "\n"), sr.out)

(***************************************************************************)
(* C29: transaction-control stripping is idempotent, strip(strip(s)) =     *)
(* strip(s) for every script s, so the digest of the stripped text is the  *)
(* same each time it is computed from the unchanged script.                *)
(***************************************************************************)
C29_StripIsIdempotent ==
    sr.done
    => /\ stripTransactionStatements(sr.out) = sr.out
       /\ stripTransactionStatements(stripTransactionStatements(sr.sql))
              = stripTransactionStatements(sr.sql)
       /\ CalculateChecksum(stripTransactionStatements(sr.out))
              = CalculateChecksum(stripTransactionStatements(sr.sql))

\* stripping removed a control line and the whitespace before the result
C29_Witness ==
    /\ sr.done
    /\ sr.given[1] = LineBeginIndented
    /\ Len(sr.given) >= 3
    /\ sr.given[2] = LineStmtIndented
    /\ sr.out # <<>>
    /\ sr.out # sr.sql
    /\ CalculateChecksum(sr.out) # CalculateChecksum(sr.sql)

(***************************************************************************)
(* C30: the splitter terminates on every input: from one loop iteration to *)
(* the next the scan position strictly increases, also at the closing      *)
(* delimiter of a block, at a lone `$` with no later `$`, and in a block   *)
(* that runs to the end of the input.                                      *)
(***************************************************************************)
C30_PositionIncreases ==
    [][(~sp.done /\ sp.st.i <= Len(sp.sql)) => sp'.st.i > sp.st.i]_vars

(***************************************************************************)
(* C24: the ledger entry of a migration is inserted inside the transaction *)
(* of that migration's statements and only after every one of them has     *)
(* succeeded: no transaction holds the ledger insert before the last       *)
(* statement was executed, and the insert is never issued outside a        *)
(* transaction.                                                            *)
(***************************************************************************)
C24_AllStatementsSucceeded ==
    LET m  == migrations[idx]
        Of(e) == e.version = m.Version /\ e.name = m.Name
        ex == SelectSeq(execd, Of)
    IN  /\ Len(ex) = Len(statements)
        /\ \A t \in 1..Len(ex) :
               ex[t].ok /\ ex[t].stmt = TrimSpace(statements[t])
        /\ Len(txEffects) = Len(statements)

C24_InsertInsideTransaction ==
    /\ txRows # {}
       => /\ txActive
          /\ pc = "commit"
          /\ txRows = {LedgerRow(migrations[idx].Version,
                                 migrations[idx].Name,
                                 RecordedChecksum(migrations[idx]),
                                 migrations[idx].SQL)}
          /\ C24_AllStatementsSucceeded
    /\ pc = "commit" => txRows # {}
    /\ (InRun /\ ~txActive) => (txRows = {} /\ txEffects = <<>>)
    /\ InRun
       => ledger = ledger0 \cup
                {LedgerRow(committed[k].Version, committed[k].Name,
                           RecordedChecksum(committed[k]), committed[k].SQL) :
                     k \in 1..Len(committed)}

\* the row of a migration with two statements is in the open transaction
C24_Witness ==
    /\ txActive
    /\ txRows # {}
    /\ Len(statements) = 2
    /\ Len(committed) >= 1

(***************************************************************************)
(* C25: when two discovered files share a version that is not yet in the   *)
(* ledger, Run() applies the first one processed and, once it has          *)
(* committed, skips the second through the already-applied check: within   *)
(* one Run() at most one script is executed for any one version.           *)
(***************************************************************************)
C25_OneScriptPerVersion ==
    /\ \A i, j \in 1..Len(began) :
           i # j => began[i].Version # began[j].Version
    /\ \A i, j \in 1..Len(execd) :
           execd[i].version = execd[j].version
           => execd[i].name = execd[j].name

(***************************************************************************)
(* C28: if the ledger insert of a migration fails, for example on a        *)
(* primary-key conflict with an existing (version, name) row, after all    *)
(* of its statements succeeded, the transaction is rolled back: none of    *)
(* the statement effects of that attempt persist, no ledger entry is       *)
(* added, and Run() returns an error without attempting later migrations.  *)
(***************************************************************************)
C28_InsertFailed ==
    /\ pc = "done"
    /\ result.status = "err_apply"
    /\ result.kind = "record"

C28_EffectsOf(m) ==
    {k \in 1..Len(schema) :
         schema[k].version = m.Version /\ schema[k].name = m.Name}

C28_InsertFailureRollsBack ==
    C28_InsertFailed
    => LET m == migrations[idx] IN
       /\ result.version = m.Version
       /\ result.name = m.Name
       /\ ~txActive
       /\ txRows = {}
       /\ txEffects = <<>>
       /\ ~C14_In(m, committed)
       /\ began = Append(committed, m)
       /\ C28_EffectsOf(m) # {} => C14_In(m, other.committed)
       /\ PrimaryKeyConflict(ledger, LedgerRow(m.Version, m.Name, 0, <<>>))
          => C14_In(m, other.committed)
       /\ Len(schema) = TotalLen([k \in 1..Len(committed) |->
                             splitSQLStatements(stripTransactionStatements(
                                 committed[k].SQL))])
                        + TotalLen([k \in 1..Len(other.committed) |->
                             splitSQLStatements(stripTransactionStatements(
                                 other.committed[k].SQL))])
       /\ ~fault => C14_In(m, other.committed)

\* the insert met the row another instance had committed, after both
\* statements of the migration had been executed
C28_Witness ==
    /\ C28_InsertFailed
    /\ ~fault
    /\ Len(statements) = 2
    /\ idx < Len(migrations)
    /\ C14_In(migrations[idx], other.committed)

(***************************************************************************)
(* C26: a successful scan returns exactly one Migration for every leaf     *)
(* entry of the source whose name ends in `.sql`; the only entries it      *)
(* skips are directories and entries without that extension, so a `.sql`   *)
(* file, also one whose name has no `_`, is never left out silently.       *)
(***************************************************************************)
C26_IsScript(e) == ~e.isDir /\ HasSuffix(e.name, SqlExt)

C26_ScriptsOf(entries) ==
    {k \in 1..Len(entries) : C26_IsScript(entries[k])}

C26_EveryScriptReturned ==
    (sc.done /\ sc.ok)
    => /\ Len(sc.out) = Cardinality(C26_ScriptsOf(sc.entries))
       /\ \A k \in C26_ScriptsOf(sc.entries) :
              \E j \in 1..Len(sc.out) :
                  sc.out[j].SQL = sc.entries[k].content

====
